---- MODULE Spec2Model ----
(***************************************************************************)
(* Model of the Telegram token tracker: the TelegramListener life cycle    *)
(* (start / stop), the reconciliation of message handlers against the      *)
(* configured channels (update_monitored_channels), the HTTP configuration *)
(* endpoints that trigger it, and the per-message ingestion pipeline       *)
(* (process_message).                                                      *)
(*                                                                         *)
(* Scheduling is asyncio's: one task runs at a time and gives up control   *)
(* only at an await.  Every action below is the code between two awaits.   *)
(***************************************************************************)
EXTENDS Integers, Sequences, FiniteSets, TLC

(***************************************************************************)
(* Bounds of the model.                                                    *)
(***************************************************************************)
\* HTTP configuration requests that may be in flight at the same time.
MaxRequests == 1
\* Rows the channel table may hold.
MaxChannels == 2
\* Handlers that may be registered with the client at once.
MaxHandlers == 3
\* Longest message text, in characters.
MaxMsgLen == 2
\* Longest list the classifier returns for one message.
MaxElems == 2
\* Rows the token table may hold before the transport stops delivering.
MaxStored == 2
\* Readings of the clock (datetime.utcnow()).
MaxTime == 1

(***************************************************************************)
(* Inputs.                                                                 *)
(***************************************************************************)
\* Channel names a client may configure.  "a" and "A" differ only in case.
Names == {"a", "A", "b"}

\* Transport identities (entity.id).
Ids == {1, 2}

\* The identity Telegram resolves a name to.  Username resolution ignores
\* letter case, so "a" and "A" are the same entity.
entity_id(name) == IF name \in {"a", "A"} THEN 1 ELSE 2

\* Characters of a text; a text is a sequence of characters.
Chars == {"b", "B", "x"}

\* The character of the string s at position i, "" outside s.
Ch(s, i) == IF i >= 1 /\ i <= Len(s) THEN SubSeq(s, i, i) ELSE ""

UpperLetters == "ABCDEFGHIJKLMNOPQRSTUVWXYZ"
LowerLetters == "abcdefghijklmnopqrstuvwxyz"
DigitChars == "0123456789"

\* The characters of the string s.
CharsOf(s) == {Ch(s, i) : i \in 1..Len(s)}

\* The position of the character c in the string s.
IndexIn(c, s) == CHOOSE i \in 1..Len(s) : Ch(s, i) = c

UpperSet == CharsOf(UpperLetters)
LowerSet == CharsOf(LowerLetters)
DigitSet == CharsOf(DigitChars)

LowerOf == [c \in UpperSet |-> Ch(LowerLetters, IndexIn(c, UpperLetters))]
UpperOf == [c \in LowerSet |-> Ch(UpperLetters, IndexIn(c, LowerLetters))]

\* str.lower() and str.upper() on one character.
lower(c) == IF c \in DOMAIN LowerOf THEN LowerOf[c] ELSE c
upper(c) == IF c \in DOMAIN UpperOf THEN UpperOf[c] ELSE c

\* Exchange names a client may configure.
ExchangeNames == {<<"B">>, <<"b", "x">>}

\* Texts of at most n characters.
Texts(n) == UNION {[1..k -> Chars] : k \in 0..n}

\* Message texts the transport may deliver.
Messages == Texts(MaxMsgLen)

\* The keys process_message reads from an element the classifier returns.
Fields == {"token", "exchange", "market"}

\* Elements the classifier may return: a complete one, and one without its
\* market.
Elements == {[token |-> "T", exchange |-> "b", market |-> "spot"],
             [token |-> "T", exchange |-> "b"]}

\* Lists the classifier may return.
ClassifierResults == UNION {[1..k -> Elements] : k \in 0..MaxElems}

Times == 1..MaxTime

\* Request tasks (HTTP handlers); task 0 is the listener's start() task.
Requests == 1..MaxRequests
Tasks == 0..MaxRequests

VARIABLES
    \* --- TelegramListener fields
    client,            \* self.client is not None
    is_running,        \* self.is_running
    channel_handlers,  \* self.channel_handlers: name -> handler object
    \* --- the Telethon client
    connected,         \* the transport connection is up
    registry,          \* event handlers registered with the client
    \* --- the database
    channels,          \* table channels, in rowid order
    exchanges,         \* table exchanges (names)
    tokens_db,         \* table tokens
    \* --- tasks
    pc,                \* where each task is suspended
    todo,              \* the channels each task's pass has still to resolve
    stopPc,            \* where stop() is
    failure,           \* the exception the last start() raised to its caller
    \* --- the last event the transport dispatched
    last,
    \* --- OpenAIClient
    reply,             \* the last classify_message call and what it returned
    \* --- TelegramMessageClassifier
    verdict,           \* the last message classified and the classification
    \* --- remove_channel_handler
    removal,           \* whether a call has removed a handler
    \* --- WebSocketServer
    clients,           \* self.clients
    wsPc,              \* where handle_client is, for each websocket
    broadcastPc,       \* where broadcast is, or how it ended
    iterator,          \* the iterator of broadcast's loop over self.clients
    disconnected_clients  \* broadcast's local set of the same name

listenerVars == <<client, is_running, channel_handlers, connected, registry,
                  channels, pc, todo, stopPc, failure>>
ingestVars == <<exchanges, tokens_db, last>>
wsVars == <<clients, wsPc, broadcastPc, iterator, disconnected_clients>>
toolVars == <<reply, verdict, removal, wsVars>>
vars == <<listenerVars, ingestVars, toolVars>>

Range(s) == {s[k] : k \in DOMAIN s}

\* The function f without the key k (del f[k]).
Without(f, k) == [x \in (DOMAIN f) \ {k} |-> f[x]]

\* The function f with f[k] = v (f[k] = v on a dict).
With(f, k, v) == [x \in (DOMAIN f) \cup {k} |-> IF x = k THEN v ELSE f[x]]

\* The sequence s without the element e.
Remove(s, e) == SelectSeq(s, LAMBDA x : x # e)

Min(S) == CHOOSE x \in S : \A y \in S : x <= y

Max(S) == CHOOSE x \in S : \A y \in S : x >= y

EmptyMap == [x \in {} |-> 0]

(***************************************************************************)
(* The Telethon client, as the listener uses it.                           *)
(***************************************************************************)
\* client.get_entity(name): the entity's id, or 0 when the call raises: the
\* client is disconnected, or the identity is not among res, those Telegram
\* resolves at the time of the call.
get_entity(name, conn, res) ==
    IF conn /\ entity_id(name) \in res THEN entity_id(name) ELSE 0

\* client.remove_event_handler(callback).
remove_event_handler(reg, h) == {x \in reg : x.id # h}

\* client.on(events.NewMessage(chats=[chat]))(callback).
add_event_handler(reg, h, chat) == reg \cup {[id |-> h, chat |-> chat]}

\* The closures that are alive: registered, or stored in channel_handlers.
Live(reg, handlers) == {x.id : x \in reg} \cup Range(handlers)

\* The identity of a newly created closure.  A closure is named <<name, k>>
\* by the channel name it was created for and the least number k that tells
\* it apart from the live closures of that name.
FreshId(name, reg, handlers) ==
    LET live == Live(reg, handlers)
    IN <<name, Min({k \in 1..(Cardinality(live) + 1) : <<name, k>> \notin live})>>

\* reconcile_channel without the removal of the old handler from the
\* client: the new handler is layered over it.
reconcile_channel_layered(name, chat, st) ==
    LET h1 == IF name \in DOMAIN st.handlers
              THEN Without(st.handlers, name)
              ELSE st.handlers
        h == FreshId(name, st.reg, h1)
    IN [handlers |-> With(h1, name, h), reg |-> add_event_handler(st.reg, h, chat)]

(***************************************************************************)
(* update_monitored_channels, one channel of the loop after get_entity has *)
(* returned chat: drop the old handler, register a new one, store it.      *)
(***************************************************************************)
reconcile_channel(name, chat, st) ==
    LET reg1 == IF name \in DOMAIN st.handlers
                THEN remove_event_handler(st.reg, st.handlers[name])
                ELSE st.reg
        h1 == IF name \in DOMAIN st.handlers
              THEN Without(st.handlers, name)
              ELSE st.handlers
        h == FreshId(name, reg1, h1)
    IN [handlers |-> With(h1, name, h), reg |-> add_event_handler(reg1, h, chat)]

\* One iteration of the loop: the try body, or the except branch that logs.
reconcile_step(name, conn, res, st) ==
    LET chat == get_entity(name, conn, res)
    IN IF chat # 0 THEN reconcile_channel(name, chat, st) ELSE st

\* A whole pass over the snapshot snap with nothing else running in between.
RECURSIVE update_monitored_channels(_, _, _, _)
update_monitored_channels(snap, conn, res, st) ==
    IF snap = <<>> THEN st
    ELSE update_monitored_channels(Tail(snap), conn, res,
                                   reconcile_step(Head(snap), conn, res, st))

\* remove_channel_handler forgetting the handler without removing it from
\* the client.
remove_channel_handler_forget(name, st) ==
    IF name \in DOMAIN st.handlers
    THEN [handlers |-> Without(st.handlers, name), reg |-> st.reg]
    ELSE st

\* remove_channel_handler(channel_name).
remove_channel_handler(name, st) ==
    IF name \in DOMAIN st.handlers
    THEN [handlers |-> Without(st.handlers, name),
          reg |-> remove_event_handler(st.reg, st.handlers[name])]
    ELSE st

(***************************************************************************)
(* The database.                                                           *)
(***************************************************************************)
\* crud.create_or_update_channel: names are unique, compared exactly.
create_or_update_channel(chs, name) ==
    IF name \in Range(chs) THEN chs ELSE Append(chs, name)

\* crud.delete_channel: the row with that id, if there is one.  A row's id
\* stands for its name here, the two being in one-to-one correspondence.
delete_channel(chs, name) == Remove(chs, name)

\* crud.get_all_channels.
get_all_channels(chs) == chs

(***************************************************************************)
(* Tasks.                                                                  *)
(***************************************************************************)

(***************************************************************************)
(* The ingestion pipeline.                                                 *)
(***************************************************************************)
\* str.lower().
Lower(s) == [k \in 1..Len(s) |-> lower(s[k])]

\* e in m, on strings.
IsSubstring(e, m) ==
    \E i \in 0..(Len(m) - Len(e)) : SubSeq(m, i + 1, i + Len(e)) = e

\* is_message_related_to_exchanges with all() for any(): true of every
\* message when no exchange is configured.
is_message_related_all(exch, message) ==
    LET exchange_names == {Lower(name) : name \in exch}
    IN \A exchange \in exchange_names : IsSubstring(exchange, Lower(message))

\* utils.is_message_related_to_exchanges(message), exch being the rows of
\* the exchange table it reads.
is_message_related_to_exchanges(exch, message) ==
    LET exchange_names == {Lower(name) : name \in exch}
    IN \E exchange \in exchange_names : IsSubstring(exchange, Lower(message))

\* Positional parameters of is_message_related_to_exchanges.
RelevanceParams == 1

\* Positional arguments process_message calls it with: (db, message).
RelevanceArgs == 2

\* Python's call of a function of nparams positional parameters with nargs
\* positional arguments: TypeError unless they agree, else the value.
Call(nargs, nparams, value) ==
    IF nargs # nparams THEN [exc |-> "TypeError", val |-> FALSE]
    ELSE [exc |-> "none", val |-> value]

\* schemas.TokenCreate(token=..., exchange=..., market=..., timestamp=now).
TokenCreate(e, now) ==
    [token |-> e.token, exchange |-> e.exchange, market |-> e.market,
     timestamp |-> now]

\* The loop of process_message over the classifier's list, from element i on,
\* saved being the rows written so far.  Reading a missing key raises
\* KeyError; the write of element failAt (crud.create_token) raises.  Nothing
\* in the loop catches either.
RECURSIVE save_tokens(_, _, _, _, _)
save_tokens(tokens, i, failAt, now, saved) ==
    IF i > Len(tokens) THEN [saved |-> saved, error |-> "none"]
    ELSE IF ~(Fields \subseteq DOMAIN tokens[i])
         THEN [saved |-> saved, error |-> "KeyError"]
    ELSE IF i = failAt
         THEN [saved |-> saved, error |-> "PersistenceError"]
    ELSE save_tokens(tokens, i + 1, failAt, now,
                     Append(saved, TokenCreate(tokens[i], now)))

\* The try block of process_message: calls counts the classifier's
\* invocations, saved the rows written, error the exception that ended it.
process_message_body(message, exch, tokens, failAt, now) ==
    IF message = <<>> THEN [calls |-> 0, saved |-> <<>>, error |-> "none"]
    ELSE LET related == Call(RelevanceArgs, RelevanceParams,
                             is_message_related_to_exchanges(exch, message))
         IN IF related.exc # "none"
            THEN [calls |-> 0, saved |-> <<>>, error |-> related.exc]
            ELSE IF ~related.val
            THEN [calls |-> 0, saved |-> <<>>, error |-> "none"]
            ELSE LET r == save_tokens(tokens, 1, failAt, now, <<>>)
                 IN [calls |-> 1, saved |-> r.saved, error |-> r.error]

\* process_message with an except clause that logs and re-raises.
process_message_reraise(message, exch, tokens, failAt, now) ==
    LET r == process_message_body(message, exch, tokens, failAt, now)
    IN [calls |-> r.calls, saved |-> r.saved, error |-> r.error,
        raised |-> r.error # "none"]

\* process_message(event): the try block, and the except clause that logs
\* every Exception; raised tells whether one leaves the method.
process_message(message, exch, tokens, failAt, now) ==
    LET r == process_message_body(message, exch, tokens, failAt, now)
    IN [calls |-> r.calls, saved |-> r.saved, error |-> r.error,
        raised |-> FALSE]

\* The sequence s, n times over.
RECURSIVE Repeat(_, _)
Repeat(s, n) == IF n = 0 THEN <<>> ELSE s \o Repeat(s, n - 1)

\* The event the transport has dispatched and not yet retired: its source
\* and text, the list the classifier returns for it and the write that
\* fails, the number of handlers it was handed to, and what process_message
\* did with it.  NoEvent when there is none.
NoEvent == [chat |-> 0, msg |-> <<>>, tokens |-> <<>>, failAt |-> 0,
            handed |-> 0, calls |-> 0, saved |-> <<>>, error |-> "none",
            raised |-> FALSE]

(***************************************************************************)
(* OpenAIClient.classify_message.                                          *)
(***************************************************************************)
\* Longest content of a service response, in characters.
MaxContentLen == 3

\* Characters of a response content.
JsonChars == {"[", "]", "{", "}", "1", ","}

\* Response contents of at most n characters.
RECURSIVE Contents(_)
Contents(n) ==
    IF n = 0 THEN {""}
    ELSE LET shorter == Contents(n - 1)
         IN shorter \cup {s \o c : s \in shorter, c \in JsonChars}

\* What chat.completions.create does: it raises, or returns a response with
\* no choice, with a null content, or with a text content.
Outcomes ==
    {[kind |-> k, content |-> ""] : k \in {"raises", "nochoice", "null"}}
        \cup {[kind |-> "text", content |-> c] : c \in Contents(MaxContentLen)}

\* JSON values: a number, the empty object, an array.
JsonNum(v) == [kind |-> "num", val |-> v, items |-> <<>>]
JsonObj == [kind |-> "obj", val |-> 0, items |-> <<>>]
JsonList(items) == [kind |-> "list", val |-> 0, items |-> items]
JsonFail == [ok |-> FALSE, value |-> JsonObj, next |-> 0]

\* json.loads on the characters above: a value is a run of digits, {} or an
\* array of values separated by commas; the whole text must be one value.
RECURSIVE ParseNumber(_, _, _)
ParseNumber(s, i, acc) ==
    IF Ch(s, i) = "1" THEN ParseNumber(s, i + 1, acc * 10 + 1)
    ELSE [ok |-> TRUE, value |-> JsonNum(acc), next |-> i]

RECURSIVE ParseValue(_, _)
RECURSIVE ParseElements(_, _, _)
ParseValue(s, i) ==
    CASE Ch(s, i) = "1" -> ParseNumber(s, i, 0)
      [] Ch(s, i) = "{" ->
            IF Ch(s, i + 1) = "}"
            THEN [ok |-> TRUE, value |-> JsonObj, next |-> i + 2]
            ELSE JsonFail
      [] Ch(s, i) = "[" ->
            IF Ch(s, i + 1) = "]"
            THEN [ok |-> TRUE, value |-> JsonList(<<>>), next |-> i + 2]
            ELSE ParseElements(s, i + 1, <<>>)
      [] OTHER -> JsonFail

ParseElements(s, i, acc) ==
    LET v == ParseValue(s, i)
    IN IF ~v.ok THEN JsonFail
       ELSE IF Ch(s, v.next) = ","
            THEN ParseElements(s, v.next + 1, Append(acc, v.value))
       ELSE IF Ch(s, v.next) = "]"
            THEN [ok |-> TRUE, value |-> JsonList(Append(acc, v.value)),
                  next |-> v.next + 1]
       ELSE JsonFail

json_loads(s) ==
    LET v == ParseValue(s, 1)
    IN IF v.ok /\ v.next = Len(s) + 1
       THEN [exc |-> "none", value |-> v.value]
       ELSE [exc |-> "JSONDecodeError", value |-> JsonObj]

\* The outer try block of OpenAIClient.classify_message: exc is the
\* exception that leaves it.  json.loads(None) raises TypeError, which the
\* inner except json.JSONDecodeError does not catch.
OpenAIClient_classify_body(outcome) ==
    CASE outcome.kind = "raises" -> [exc |-> "APIError", result |-> <<>>]
      [] outcome.kind = "nochoice" -> [exc |-> "IndexError", result |-> <<>>]
      [] outcome.kind = "null" -> [exc |-> "TypeError", result |-> <<>>]
      [] OTHER ->
            LET parsed == json_loads(outcome.content)
            IN IF parsed.exc # "none" THEN [exc |-> "none", result |-> <<>>]
               ELSE IF parsed.value.kind = "list"
                    THEN [exc |-> "none", result |-> parsed.value.items]
               ELSE [exc |-> "none", result |-> <<>>]

\* classify_message without its outer except Exception.
OpenAIClient_classify_message_unguarded(outcome) ==
    LET r == OpenAIClient_classify_body(outcome)
    IN [outcome |-> outcome, calls |-> 1, result |-> r.result,
        raised |-> r.exc # "none"]

\* OpenAIClient.classify_message(message), the service doing outcome: one
\* call of chat.completions.create, and the outer except returns [].
OpenAIClient_classify_message(outcome) ==
    LET r == OpenAIClient_classify_body(outcome)
    IN [outcome |-> outcome, calls |-> 1,
        result |-> IF r.exc # "none" THEN <<>> ELSE r.result,
        raised |-> FALSE]

\* No call of classify_message yet.
NoReply == [outcome |-> [kind |-> "none", content |-> ""], calls |-> 0,
            result |-> <<>>, raised |-> FALSE]

(***************************************************************************)
(* Regular expressions (module re), as far as backtester.py uses them.  A  *)
(* pattern is a sequence of nodes; the matcher tries the alternatives in   *)
(* the order Python's does, so the first match it finds is Python's.       *)
(***************************************************************************)
Node(t, lit, cls, min, max, unbounded, greedy, sub) ==
    [t |-> t, lit |-> lit, cls |-> cls, min |-> min, max |-> max,
     unbounded |-> unbounded, greedy |-> greedy, sub |-> sub]

\* Literal text.
Lit(s) == Node("lit", s, "", 0, 0, FALSE, TRUE, <<>>)
\* cls+ , cls* , .*? and cls{min,max}.
Plus(cls) == Node("rep", "", cls, 1, 0, TRUE, TRUE, <<>>)
Star(cls) == Node("rep", "", cls, 0, 0, TRUE, TRUE, <<>>)
LazyStar(cls) == Node("rep", "", cls, 0, 0, TRUE, FALSE, <<>>)
Between(cls, min, max) == Node("rep", "", cls, min, max, FALSE, TRUE, <<>>)
\* ( and ) of a capturing group, \b, and (?:sub)?.
Open == Node("open", "", "", 0, 0, FALSE, TRUE, <<>>)
Close == Node("close", "", "", 0, 0, FALSE, TRUE, <<>>)
WordBoundary == Node("wb", "", "", 0, 0, FALSE, TRUE, <<>>)
Optional(sub) == Node("opt", "", "", 0, 0, FALSE, TRUE, sub)

\* The characters \w matches, and those [A-Z0-9] matches.
WordChars == UpperSet \cup LowerSet \cup DigitSet \cup {"_"}
UpperDigitChars == UpperSet \cup DigitSet

\* \w on one character.
IsWordChar(c) == c \in WordChars

\* The character classes: \s, [^\s], \w, ., [A-Z0-9], [^\)].
InClass(cls, c) ==
    /\ c # ""
    /\ CASE cls = "space" -> c = " "
         [] cls = "nonspace" -> c # " "
         [] cls = "word" -> IsWordChar(c)
         [] cls = "any" -> TRUE
         [] cls = "upperdigit" -> c \in UpperDigitChars
         [] cls = "notparen" -> c # ")"
         [] OTHER -> FALSE

\* str.lower() and str.upper(): character by character, the string being
\* halved to keep the recursion shallow.
RECURSIVE str_lower(_)
str_lower(s) ==
    IF Len(s) <= 1 THEN lower(s)
    ELSE str_lower(SubSeq(s, 1, Len(s) \div 2))
             \o str_lower(SubSeq(s, Len(s) \div 2 + 1, Len(s)))

RECURSIVE str_upper(_)
str_upper(s) ==
    IF Len(s) <= 1 THEN upper(s)
    ELSE str_upper(SubSeq(s, 1, Len(s) \div 2))
             \o str_upper(SubSeq(s, Len(s) \div 2 + 1, Len(s)))

\* The literal lit stands in s at position i; ic is re.IGNORECASE.
LitAt(lit, s, i, ic) ==
    /\ i + Len(lit) - 1 <= Len(s)
    /\ \A k \in 1..Len(lit) :
          IF ic THEN lower(Ch(s, i + k - 1)) = lower(Ch(lit, k))
          ELSE Ch(s, i + k - 1) = Ch(lit, k)

\* The number of characters of the class cls that stand in s from i on.
RunLength(cls, s, i) ==
    LET stops == {j \in i..(Len(s) + 1) : ~InClass(cls, Ch(s, j))}
    IN Min(stops) - i

NoMatch == [ok |-> FALSE, end |-> 0, caps |-> <<>>]

\* The match of the nodes at position i of s: caps are the groups captured
\* so far, opens the positions of the groups that are open.
RECURSIVE MatchAt(_, _, _, _, _, _)
MatchAt(nodes, s, i, caps, opens, ic) ==
    IF nodes = <<>> THEN [ok |-> TRUE, end |-> i, caps |-> caps]
    ELSE LET h == Head(nodes)
             rest == Tail(nodes)
         IN CASE h.t = "lit" ->
                    IF LitAt(h.lit, s, i, ic)
                    THEN MatchAt(rest, s, i + Len(h.lit), caps, opens, ic)
                    ELSE NoMatch
              [] h.t = "open" -> MatchAt(rest, s, i, caps, Append(opens, i), ic)
              [] h.t = "close" ->
                    MatchAt(rest, s, i,
                            Append(caps, SubSeq(s, opens[Len(opens)], i - 1)),
                            SubSeq(opens, 1, Len(opens) - 1), ic)
              [] h.t = "wb" ->
                    IF IsWordChar(Ch(s, i - 1)) # IsWordChar(Ch(s, i))
                    THEN MatchAt(rest, s, i, caps, opens, ic)
                    ELSE NoMatch
              [] h.t = "opt" ->
                    LET with == MatchAt(h.sub \o rest, s, i, caps, opens, ic)
                    IN IF with.ok THEN with
                       ELSE MatchAt(rest, s, i, caps, opens, ic)
              [] OTHER ->
                    LET run == RunLength(h.cls, s, i)
                        hi == IF h.unbounded \/ run < h.max THEN run ELSE h.max
                        \* the lengths of the repetition after which the
                        \* rest matches: the longest is tried first when
                        \* greedy, the shortest when lazy
                        fit == {n \in h.min..hi :
                                   MatchAt(rest, s, i + n, caps, opens, ic).ok}
                    IN IF fit = {} THEN NoMatch
                       ELSE MatchAt(rest, s,
                                    i + (IF h.greedy THEN Max(fit) ELSE Min(fit)),
                                    caps, opens, ic)

\* re.findall(pattern, s) from position i on, with the groups of every
\* match appended to acc in order (what the callers' extend/append make of
\* findall's strings and tuples).
RECURSIVE findall(_, _, _, _, _)
findall(nodes, s, i, ic, acc) ==
    LET starts == {j \in i..Len(s) : MatchAt(nodes, s, j, <<>>, <<>>, ic).ok}
    IN IF starts = {} THEN acc
       ELSE LET j == Min(starts)
                r == MatchAt(nodes, s, j, <<>>, <<>>, ic)
            IN findall(nodes, s, IF r.end > j THEN r.end ELSE j + 1, ic,
                       acc \o r.caps)

\* The tokens the patterns capture, pattern after pattern.
RECURSIVE extract_with(_, _, _, _)
extract_with(patterns, s, ic, acc) ==
    IF patterns = <<>> THEN acc
    ELSE extract_with(Tail(patterns), s, ic,
                      findall(Head(patterns), s, 1, ic, acc))

(***************************************************************************)
(* TelegramMessageClassifier (backtester.py).                              *)
(***************************************************************************)
\* self.exchange_phrases, in the order the dict is iterated.
exchange_phrases ==
    << [exchange |-> "Binance",
        phrases |-> <<"Binance Will List", "Binance Futures Will Launch",
                      "Introducing">>],
       [exchange |-> "Coinbase",
        phrases |-> <<"Coinbase Will List", "Coinbase will add support for",
                      "Assets added to the roadmap today">>],
       [exchange |-> "OKX",
        phrases |-> <<"OKX to list", "OKX will list",
                      "OKX announces the listing of">>],
       [exchange |-> "Bybit",
        phrases |-> <<"Bybit to list", "Bybit will list",
                      "Bybit announces the listing of">>],
       [exchange |-> "Upbit",
        phrases |-> <<"Upbit Will List", "Upbit announces the listing of">>],
       [exchange |-> "Bithumb",
        phrases |-> <<"Bithumb Will List", "Bithumb announces the listing of">>] >>

\* The tail of two patterns: \s+([^\s]+)\s+\((\w+)\)
NameAndSymbol ==
    <<Plus("space"), Open, Plus("nonspace"), Close, Plus("space"),
      Lit("("), Open, Plus("word"), Close, Lit(")")>>

binance_patterns ==
    << <<Lit("Introducing")>> \o NameAndSymbol,
       <<Lit("Binance Will List")>> \o NameAndSymbol,
       <<Lit("Binance Futures Will Launch"), LazyStar("any"),
         Open, Plus("word"), Close, Lit(" Perpetual Contract")>>,
       <<Lit("Binance Futures Will Launch"), LazyStar("any"),
         Open, Plus("word"), Lit("USDT"), Close>> >>

coinbase_patterns ==
    << <<Lit("Assets added to the roadmap today:"), LazyStar("any"),
         Lit("("), Open, Plus("word"), Close, Lit(")")>>,
       <<Lit("Coinbase will add support for")>> \o NameAndSymbol,
       <<Lit("Coinbase will add support for"), Plus("space"),
         Open, Plus("word"), Close>> >>

generic_patterns ==
    << <<WordBoundary, Open, Between("upperdigit", 2, 10), Close, WordBoundary,
         Optional(<<Plus("space"), Lit("("), Star("notparen"), Lit(")")>>)>>,
       <<Lit("$"), Open, Between("upperdigit", 2, 10), Close>> >>

common_words ==
    {"WILL", "LIST", "SPOT", "FUTURES", "TRADING", "PERPETUAL", "CONTRACT",
     "LAUNCH", "UPBIT", "OKX", "BYBIT"}

extract_tokens_binance(message) == extract_with(binance_patterns, message, TRUE, <<>>)

extract_tokens_coinbase(message) == extract_with(coinbase_patterns, message, TRUE, <<>>)

extract_tokens_generic(message, exchange) ==
    SelectSeq(extract_with(generic_patterns, message, FALSE, <<>>),
              LAMBDA token : str_upper(token) \notin common_words)

\* determine_market_type_binance with the tests for spot and futures
\* exchanged.
determine_market_type_spot_first(message_lower) ==
    IF IsSubstring("spot", message_lower) THEN "Spot"
    ELSE IF IsSubstring("futures", message_lower) THEN "Futures"
    ELSE IF IsSubstring("launchpool", message_lower) THEN "Launchpool"
    ELSE "Unknown"

determine_market_type_binance(message_lower) ==
    IF IsSubstring("futures", message_lower) THEN "Futures"
    ELSE IF IsSubstring("spot", message_lower) THEN "Spot"
    ELSE IF IsSubstring("launchpool", message_lower) THEN "Launchpool"
    ELSE "Unknown"

determine_market_type_okx(message_lower) ==
    IF IsSubstring("spot trading", message_lower) THEN "Spot"
    ELSE IF IsSubstring("perpetual", message_lower)
            \/ IsSubstring("futures", message_lower) THEN "Futures"
    ELSE "Unknown"

determine_market_type_bybit(message_lower) ==
    IF IsSubstring("perpetual contract", message_lower)
       \/ IsSubstring("futures", message_lower) THEN "Futures"
    ELSE IF IsSubstring("spot", message_lower) THEN "Spot"
    ELSE "Unknown"

\* The if/elif chain of extract_listing_info: the tokens ...
extract_tokens(exchange, message) ==
    CASE exchange = "Binance" -> extract_tokens_binance(message)
      [] exchange = "Coinbase" -> extract_tokens_coinbase(message)
      [] exchange \in {"OKX", "Bybit", "Upbit", "Bithumb"} ->
            extract_tokens_generic(message, exchange)
      [] OTHER -> <<>>

\* ... and the market type.
market_type(exchange, message_lower) ==
    CASE exchange = "Binance" -> determine_market_type_binance(message_lower)
      [] exchange = "OKX" -> determine_market_type_okx(message_lower)
      [] exchange = "Bybit" -> determine_market_type_bybit(message_lower)
      [] exchange \in {"Coinbase", "Upbit", "Bithumb"} -> "Spot"
      [] OTHER -> "Unknown"

\* list(set(tokens)): the tokens without repetition.  The order of the list
\* is the set's; the first occurrences are kept here.
RECURSIVE Distinct(_, _)
Distinct(tokens, acc) ==
    IF tokens = <<>> THEN acc
    ELSE Distinct(Tail(tokens),
                  IF Head(tokens) \in Range(acc) THEN acc
                  ELSE Append(acc, Head(tokens)))

\* extract_listing_info returns None.
NoInfo == [some |-> FALSE, exchange |-> "", tokens |-> <<>>, market |-> ""]

\* extract_listing_info that returns its dict whatever the tokens, and
\* without removing the duplicates.
extract_listing_info_raw(exchange, message) ==
    [some |-> TRUE, exchange |-> exchange,
     tokens |-> extract_tokens(exchange, message),
     market |-> market_type(exchange, str_lower(message))]

\* extract_listing_info(exchange, message); the dict's 'message' entry is
\* the argument and is left out.
extract_listing_info(exchange, message) ==
    LET tokens == extract_tokens(exchange, message)
    IN IF tokens # <<>>
       THEN [some |-> TRUE, exchange |-> exchange,
             tokens |-> Distinct(tokens, <<>>),
             market |-> market_type(exchange, str_lower(message))]
       ELSE NoInfo

\* The loops of classify_message from exchange e, phrase p on: the first
\* listing info that is not None is returned.
RECURSIVE classify_from(_, _, _, _)
classify_from(message, message_lower, e, p) ==
    IF e > Len(exchange_phrases) THEN NoInfo
    ELSE IF p > Len(exchange_phrases[e].phrases)
         THEN classify_from(message, message_lower, e + 1, 1)
    ELSE IF IsSubstring(str_lower(exchange_phrases[e].phrases[p]), message_lower)
         THEN LET listing_info ==
                      extract_listing_info(exchange_phrases[e].exchange, message)
              IN IF listing_info.some THEN listing_info
                 ELSE classify_from(message, message_lower, e, p + 1)
    ELSE classify_from(message, message_lower, e, p + 1)

\* TelegramMessageClassifier.classify_message(message).
classify_message(message) == classify_from(message, str_lower(message), 1, 1)

\* Most pieces of text a message is made of.
MaxSegments == 3

\* Pieces of text of announcements: listings of a token with a name of one
\* word and of two words, a trigger phrase alone, and market keywords.
Segments ==
    {"Binance Will List Example (EXT)",
     "Binance Will List Example Token (EXT)",
     "Coinbase will add support for Example Token (EXT)",
     "Bybit to list",
     "Bybit to list Example (EXT)",
     "futures",
     "spot"}

\* The messages of at most n pieces, joined by one space.
RECURSIVE Announcements(_)
Announcements(n) ==
    IF n = 0 THEN {""}
    ELSE LET shorter == Announcements(n - 1)
         IN shorter \cup Segments
                \cup {m \o " " \o seg : m \in shorter \ {""}, seg \in Segments}

\* No message classified yet.
NoVerdict == [message |-> "", done |-> FALSE, result |-> NoInfo]

(***************************************************************************)
(* WebSocketServer.                                                        *)
(***************************************************************************)
\* Connections the server may accept in a run.
MaxSockets == 3

\* The websocket objects, one per connection accepted.
Sockets == 1..MaxSockets

\* register(websocket): self.clients.add(websocket).
register(cl, w) == cl \cup {w}

\* unregister(websocket): self.clients.remove(websocket), which raises
\* KeyError when the websocket is not in the set.
unregister(cl, w) ==
    IF w \in cl
    THEN [clients |-> cl \ {w}, raised |-> FALSE]
    ELSE [clients |-> cl, raised |-> TRUE]

\* iter(self.clients): the set iterator keeps the size the set had, here
\* with the set it was made over, the elements it has yielded and the one
\* the loop body is at.
NewIterator(cl, first) ==
    [size |-> Cardinality(cl), over |-> cl, visited |-> {first},
     current |-> first]

NoIterator == [size |-> 0, over |-> {}, visited |-> {}, current |-> 0]

\* What next() on the iterator may yield.  Over the set it was made over it
\* is an element not yet yielded; over a set of the same size with other
\* elements the table has been rewritten under the iterator, which then
\* yields any element, or none.
NextClients(cl, i) == IF cl = i.over THEN cl \ i.visited ELSE cl

\* next() may find the iterator exhausted.
Exhausted(cl, i) == cl # i.over \/ cl \ i.visited = {}

NoRemoval == [found |-> FALSE]

State == [handlers |-> channel_handlers, reg |-> registry]

Init ==
    /\ client = FALSE
    /\ is_running = FALSE
    /\ channel_handlers = EmptyMap
    /\ connected = FALSE
    /\ registry = {}
    /\ channels = <<>>
    /\ exchanges = {}
    /\ tokens_db = <<>>
    /\ pc = [t \in Tasks |-> "idle"]
    /\ todo = [t \in Tasks |-> <<>>]
    /\ stopPc = "idle"
    /\ failure = "none"
    /\ last = NoEvent
    /\ reply = NoReply
    /\ verdict = NoVerdict
    /\ removal = NoRemoval
    /\ clients = {}
    /\ wsPc = [w \in Sockets |-> "none"]
    /\ broadcastPc = "idle"
    /\ iterator = NoIterator
    /\ disconnected_clients = {}

\* Where start() is after update_monitored_channels has returned: is_running
\* is set and run_until_disconnected awaited, which returns at once when the
\* client is not connected.
StartAfterPass == IF connected THEN "running" ELSE "idle"

\* start(), up to its first await (client.connect()).
StartCall ==
    /\ pc[0] = "idle"
    /\ stopPc' = IF stopPc = "stopped" THEN "idle" ELSE stopPc
    /\ IF is_running
       THEN UNCHANGED <<client, pc, failure>>
       ELSE /\ client' = TRUE
            /\ pc' = [pc EXCEPT ![0] = "connect"]
            /\ failure' = "none"
    /\ UNCHANGED <<is_running, channel_handlers, connected, registry,
                   channels, todo, ingestVars, toolVars>>

\* client.connect() returns, or raises and start() re-raises.
StartConnect ==
    /\ pc[0] = "connect"
    /\ \/ /\ connected' = TRUE
          /\ pc' = [pc EXCEPT ![0] = "auth"]
          /\ UNCHANGED <<is_running, failure>>
       \/ /\ is_running' = FALSE
          /\ pc' = [pc EXCEPT ![0] = "idle"]
          /\ failure' = "connect"
          /\ UNCHANGED connected
    /\ UNCHANGED <<client, channel_handlers, registry, channels,
                   todo, stopPc, ingestVars, toolVars>>

\* start() after handle_authentication() has returned True: it goes on into
\* update_monitored_channels up to its first get_entity.
StartAuthenticated ==
    LET snap == get_all_channels(channels)
    IN /\ IF snap = <<>>
          THEN /\ is_running' = TRUE
               /\ pc' = [pc EXCEPT ![0] = StartAfterPass]
               /\ UNCHANGED todo
          ELSE /\ pc' = [pc EXCEPT ![0] = "pass"]
               /\ todo' = [todo EXCEPT ![0] = snap]
               /\ UNCHANGED is_running

\* start() going on into update_monitored_channels whatever
\* handle_authentication() returned.
StartAuth_unchecked ==
    /\ pc[0] = "auth"
    /\ \E ok \in BOOLEAN :
        /\ StartAuthenticated
        /\ failure' = IF ok THEN failure ELSE "auth"
    /\ UNCHANGED <<client, channel_handlers, connected, registry, channels, stopPc, ingestVars, toolVars>>

\* handle_authentication() returns ok; on False start() raises "Authentication
\* failed", and its except clause clears is_running and re-raises.
StartAuth ==
    /\ pc[0] = "auth"
    /\ \E ok \in BOOLEAN :
        IF ok
        THEN /\ StartAuthenticated
             /\ UNCHANGED failure
        ELSE /\ is_running' = FALSE
             /\ pc' = [pc EXCEPT ![0] = "idle"]
             /\ failure' = "auth"
             /\ UNCHANGED todo
    /\ UNCHANGED <<client, channel_handlers, connected, registry, channels, stopPc, ingestVars, toolVars>>

\* run_until_disconnected() returns and start() with it.
StartReturn ==
    /\ pc[0] = "running"
    /\ ~connected
    /\ pc' = [pc EXCEPT ![0] = "idle"]
    /\ UNCHANGED todo
    /\ UNCHANGED <<client, is_running, channel_handlers, connected, registry,
                   channels, stopPc, failure, ingestVars, toolVars>>

\* get_entity returns or raises in task t's pass, Telegram resolving the
\* identities res, and the loop runs on to the next get_entity, or to the
\* end of the pass.
ResolveWith(t, res) ==
    /\ pc[t] = "pass"
    /\ LET name == Head(todo[t])
           st == reconcile_step(name, connected, res, State)
           done == Len(todo[t]) = 1
       IN /\ Cardinality(st.reg) <= MaxHandlers
          /\ channel_handlers' = st.handlers
          /\ registry' = st.reg
          /\ todo' = [todo EXCEPT ![t] = Tail(@)]
          /\ pc' = [pc EXCEPT ![t] = IF ~done THEN "pass"
                                     ELSE IF t = 0 THEN StartAfterPass
                                     ELSE "idle"]
          /\ is_running' = IF done /\ t = 0 THEN TRUE ELSE is_running
    /\ UNCHANGED <<client, connected, channels, stopPc, failure, ingestVars, toolVars>>

Resolve(t) == \E ok \in BOOLEAN : ResolveWith(t, IF ok THEN Ids ELSE {})

\* stop(), up to the end of client.disconnect().
StopCall ==
    /\ stopPc # "disconnecting"
    /\ client
    /\ connected' = FALSE
    /\ stopPc' = "disconnecting"
    /\ UNCHANGED <<client, is_running, channel_handlers, registry, channels, pc, todo, failure, ingestVars, toolVars>>

\* stop(), after client.disconnect().
StopReturn ==
    /\ stopPc = "disconnecting"
    /\ is_running' = FALSE
    /\ stopPc' = "stopped"
    /\ UNCHANGED <<client, channel_handlers, connected, registry, channels, pc, todo, failure, ingestVars, toolVars>>

\* A request handler after its write to the channel table: with the listener
\* running it enters update_monitored_channels, up to its first get_entity;
\* else, and when no channel is configured, it returns.
AfterConfigChange(t) ==
    LET snap == get_all_channels(channels')
    IN IF is_running /\ snap # <<>>
       THEN /\ pc' = [pc EXCEPT ![t] = "pass"]
            /\ todo' = [todo EXCEPT ![t] = snap]
       ELSE UNCHANGED <<pc, todo>>

FreeRequest(t) ==
    /\ t \in Requests
    /\ pc[t] = "idle"
    /\ \A u \in Requests : pc[u] = "idle" => t <= u

\* POST /config/channel/
AddChannel(t, name) ==
    /\ FreeRequest(t)
    /\ name \in Range(channels) \/ Len(channels) < MaxChannels
    /\ channels' = create_or_update_channel(channels, name)
    /\ AfterConfigChange(t)
    /\ UNCHANGED <<client, is_running, channel_handlers, connected, registry, stopPc, failure, ingestVars, toolVars>>

\* DELETE /config/channel/{channel_id}
DeleteChannel(t, name) ==
    /\ FreeRequest(t)
    /\ channels' = delete_channel(channels, name)
    /\ AfterConfigChange(t)
    /\ UNCHANGED <<client, is_running, channel_handlers, connected, registry, stopPc, failure, ingestVars, toolVars>>

\* POST /config/exchange/ (crud.create_or_update_exchange).
AddExchange(name) ==
    /\ exchanges' = exchanges \cup {name}
    /\ last' = NoEvent
    /\ UNCHANGED <<toolVars, listenerVars, tokens_db>>

\* DELETE /config/exchange/{exchange_id} (crud.delete_exchange).
DeleteExchange(name) ==
    /\ exchanges' = exchanges \ {name}
    /\ last' = NoEvent
    /\ UNCHANGED <<toolVars, listenerVars, tokens_db>>

\* The transport delivers a message of the source chat: every registered
\* handler listening to chat is called once, and runs process_message.  A
\* message of a source no handler listens to runs no code of the program.
Deliver(chat, message, tokens, failAt, now) ==
    /\ connected
    /\ last = NoEvent
    /\ Len(tokens_db) < MaxStored
    /\ LET handed == Cardinality({x \in registry : x.chat = chat})
           r == process_message(message, exchanges, tokens, failAt, now)
       IN /\ handed > 0
          /\ tokens_db' = tokens_db \o Repeat(r.saved, handed)
          /\ last' = [chat |-> chat, msg |-> message, tokens |-> tokens,
                      failAt |-> failAt, handed |-> handed, calls |-> r.calls,
                      saved |-> r.saved, error |-> r.error, raised |-> r.raised]
    /\ UNCHANGED <<toolVars, listenerVars, exchanges>>

\* The transport retires the event it dispatched.
DispatchEnds ==
    /\ last # NoEvent
    /\ last' = NoEvent
    /\ UNCHANGED <<toolVars, listenerVars, exchanges, tokens_db>>

Next ==
    \/ StartCall
    \/ StartConnect
    \/ StartAuth
    \/ StartReturn
    \/ \E t \in Tasks : Resolve(t)
    \/ StopCall
    \/ StopReturn
    \/ \E t \in Requests, name \in Names : AddChannel(t, name)
    \/ \E t \in Requests, name \in Names : DeleteChannel(t, name)

Spec == Init /\ [][Next]_vars

(***************************************************************************)
(* The same program with a transport that resolves every name whenever the *)
(* client is connected.                                                    *)
(***************************************************************************)
ResolveOk(t) == ResolveWith(t, Ids)

NextResolving ==
    \/ StartCall
    \/ StartConnect
    \/ StartAuth
    \/ StartReturn
    \/ \E t \in Tasks : ResolveOk(t)
    \/ StopCall
    \/ StopReturn
    \/ \E t \in Requests, name \in Names : AddChannel(t, name)
    \/ \E t \in Requests, name \in Names : DeleteChannel(t, name)

SpecResolving == Init /\ [][NextResolving]_vars

(***************************************************************************)
(* The listener with message dispatch: the transport delivers messages of  *)
(* every source, of a text that process_message passes on to its relevance *)
(* check.                                                                  *)
(***************************************************************************)
DeliverPlain(chat) == Deliver(chat, <<"x">>, <<>>, 0, 1)

NextDispatch ==
    \/ StartCall
    \/ StartConnect
    \/ StartAuth
    \/ StartReturn
    \/ \E t \in Tasks : Resolve(t)
    \/ StopCall
    \/ StopReturn
    \/ \E t \in Requests, name \in Names : AddChannel(t, name)
    \/ \E t \in Requests, name \in Names : DeleteChannel(t, name)
    \/ \E chat \in Ids : DeliverPlain(chat)
    \/ DispatchEnds

SpecDispatch == Init /\ [][NextDispatch]_vars

(***************************************************************************)
(* The ingestion pipeline on its own: the channels "a" and "b" are         *)
(* configured before the listener is started, the listener starts, and the *)
(* transport delivers every message, the classifier returning every list   *)
(* and every write failing or not.                                         *)
(***************************************************************************)
ConfigureChannel(name) == ~client /\ AddChannel(1, name)

Ingest(chat, message, tokens, failAt, now) ==
    Deliver(chat, message, tokens, failAt, now)

NextIngest ==
    \/ \E name \in {"a", "b"} : ConfigureChannel(name)
    \/ StartCall
    \/ StartConnect
    \/ StartAuth
    \/ \E t \in Tasks : Resolve(t)
    \/ \E name \in ExchangeNames : AddExchange(name)
    \/ \E name \in ExchangeNames : DeleteExchange(name)
    \/ \E chat \in Ids, message \in Messages, tokens \in ClassifierResults,
          now \in Times :
            \E failAt \in 0..Len(tokens) :
                Ingest(chat, message, tokens, failAt, now)
    \/ DispatchEnds

SpecIngest == Init /\ [][NextIngest]_vars

(***************************************************************************)
(* Properties of the reconciliation.                                       *)
(***************************************************************************)
\* The routes of a listener state: the configured names with a stored
\* handler that is registered, each with the identity it listens to.
RouteSet(st) ==
    UNION {{<<n, x.chat>> : x \in {y \in st.reg : y.id = st.handlers[n]}} :
           n \in DOMAIN st.handlers}

\* The registered handlers that were created for the channel name n.
HandlersOf(n, st) == {x \in st.reg : x.id[1] = n}

\* No pass is in flight.
NoPass == \A t \in Tasks : pc[t] # "pass"

\* No operation is in flight: start() has returned or sits in
\* run_until_disconnected, and no request or stop() is under way.
Quiescent ==
    /\ pc[0] \in {"idle", "running"}
    /\ \A t \in Requests : pc[t] = "idle"
    /\ stopPc # "disconnecting"

\* C1: from any reachable state, running update_monitored_channels twice in
\* succession over the same configured channels, with the transport resolving
\* the same identities res both times, leaves the same routes and as many
\* registered handlers as running it once, and every configured name that
\* resolves has exactly one registered handler, the one stored for it.
C1_ReconcileIdempotent ==
    \A res \in SUBSET Ids :
        LET snap == get_all_channels(channels)
            once == update_monitored_channels(snap, TRUE, res, State)
            twice == update_monitored_channels(snap, TRUE, res, once)
        IN /\ RouteSet(twice) = RouteSet(once)
           /\ Cardinality(twice.reg) = Cardinality(once.reg)
           /\ \A n \in Range(snap) :
                 get_entity(n, TRUE, res) # 0 =>
                     /\ n \in DOMAIN twice.handlers
                     /\ HandlersOf(n, twice) =
                            {[id |-> twice.handlers[n], chat |-> entity_id(n)]}
                     /\ HandlersOf(n, once) =
                            {[id |-> once.handlers[n], chat |-> entity_id(n)]}

\* C1 witness: the listener runs with two configured channels that both got
\* their route from a completed pass, so the passes of C1 replace live
\* handlers.
C1_Witness ==
    /\ is_running /\ connected /\ pc[0] = "running" /\ Quiescent
    /\ Len(channels) = 2
    /\ DOMAIN channel_handlers = Range(channels)
    /\ Cardinality(registry) = 2

\* C2: when a reconciliation triggered by a configuration request completes
\* and no other pass is in flight, no handler is stored or registered for a
\* name that is no longer configured (a source removed by delete_channel).
C2_RemovedSourceHasNoRoute ==
    [][((\/ \E t \in Requests : pc[t] = "pass" /\ pc'[t] = "idle"
         \/ is_running /\ channels' # channels /\ pc' = pc)
        /\ \A t \in Tasks : pc'[t] # "pass")
       => /\ DOMAIN channel_handlers' \subseteq Range(channels')
          /\ \A x \in registry' : x.id[1] \in Range(channels')]_vars

\* C3: from any reachable state, after a pass in which the transport
\* resolves the identities res, a configured name that did not resolve has
\* no route, and every configured name that resolved has one.
C3_UnresolvedExcluded ==
    \A res \in SUBSET Ids :
        LET snap == get_all_channels(channels)
            st == update_monitored_channels(snap, connected, res, State)
        IN \A n \in Range(snap) :
             IF get_entity(n, connected, res) = 0
             THEN n \notin DOMAIN st.handlers /\ HandlersOf(n, st) = {}
             ELSE <<n, entity_id(n)>> \in RouteSet(st)

\* C4: a dispatched message is handed to process_message exactly once.
C4_HandedExactlyOnce == last.handed <= 1

\* C6: once no operation is in flight and the listener runs connected, every
\* configured channel has a route (the transport resolving every name).
C6_EveryConfiguredSourceRouted ==
    (Quiescent /\ is_running /\ connected /\ pc[0] = "running")
        => \A n \in Range(channels) : <<n, entity_id(n)>> \in RouteSet(State)

\* C7: once stop() has completed, is_running is false until start() is
\* called again.
C7_StoppedNotRunning == stopPc = "stopped" => ~is_running

(***************************************************************************)
(* Properties of the ingestion pipeline.                                   *)
(***************************************************************************)
\* The text m holds one of the names, letter case apart: at some offset every
\* character of the name equals the character of m there, both lowered.
ContainsExchangeName(m, names) ==
    \E e \in names : \E off \in 0..Len(m) :
        /\ off + Len(e) <= Len(m)
        /\ \A k \in 1..Len(e) : lower(m[off + k]) = lower(e[k])

\* The elements of a classifier list that carry every field.
WellFormed(tokens) == {k \in 1..Len(tokens) : Fields \subseteq DOMAIN tokens[k]}

\* C5: a message whose processing fails raises nothing out of
\* process_message, and the step that processes a message changes no stored
\* or registered handler and leaves the transport connected, so later
\* messages are dispatched as before.
C5_FailureIsolated ==
    [][(last' # last /\ last'.handed > 0)
       => /\ ~last'.raised
          /\ channel_handlers' = channel_handlers
          /\ registry' = registry
          /\ connected' = connected]_vars

\* C5 witness: a message was handed to process_message and its processing
\* ended with an exception.
C5_Witness == last.handed > 0 /\ last.error # "none"

\* C8: for a dispatched message that holds no configured exchange name, the
\* relevance check is false, and process_message does not invoke the
\* classifier and persists no row.
C8_IrrelevantMessageDropped ==
    (last.handed > 0 /\ ~ContainsExchangeName(last.msg, exchanges))
        => /\ ~is_message_related_to_exchanges(exchanges, last.msg)
           /\ last.calls = 0
           /\ last.saved = <<>>

\* C8 witness: with an exchange configured, a non-empty message that holds no
\* exchange name was handed to process_message, the classifier having a
\* well-formed element to return for it.
C8_Witness ==
    /\ exchanges # {}
    /\ last.handed > 0 /\ last.msg # <<>>
    /\ ~ContainsExchangeName(last.msg, exchanges)
    /\ WellFormed(last.tokens) # {}

\* C9: for a non-empty message that holds a configured exchange name,
\* process_message invokes the classifier once and persists one row, with
\* the timestamp it assigned, for each well-formed element returned.
C9_RelevantMessagePersisted ==
    (last.handed > 0 /\ last.msg # <<>> /\ last.failAt = 0
     /\ ContainsExchangeName(last.msg, exchanges))
        => /\ last.calls = 1
           /\ Len(last.saved) = Cardinality(WellFormed(last.tokens))
           /\ \A k \in 1..Len(last.saved) : last.saved[k].timestamp \in Times

\* C10: of the list the classifier returns for a message, several elements
\* long with one malformed or one whose write fails, the loop of
\* process_message persists every other element: as many rows as there are
\* well-formed elements whose write does not fail.
C10_SiblingsPersisted ==
    LET r == save_tokens(last.tokens, 1, last.failAt, 1, <<>>)
        dropped == (1..Len(last.tokens)) \ (WellFormed(last.tokens) \ {last.failAt})
    IN (last.handed > 0 /\ Len(last.tokens) >= 2 /\ dropped # {})
           => Len(r.saved) = Cardinality(WellFormed(last.tokens) \ {last.failAt})

(***************************************************************************)
(* The generative classifier on its own: classify_message is called, the   *)
(* service doing each of its outcomes.                                     *)
(***************************************************************************)
ClassifyCall(outcome) ==
    /\ reply' = OpenAIClient_classify_message(outcome)
    /\ UNCHANGED <<listenerVars, ingestVars, verdict, removal, wsVars>>

NextOpenAI == \E outcome \in Outcomes : ClassifyCall(outcome)

SpecOpenAI == Init /\ [][NextOpenAI]_vars

\* C11: classify_message never raises and makes one service call; it
\* returns the parsed array when the content parses to a JSON array, and the
\* empty list for every other outcome of the call.
C11_ClassifyNeverRaises ==
    reply.calls > 0 =>
        /\ ~reply.raised
        /\ reply.calls = 1
        /\ LET parsed == json_loads(reply.outcome.content)
               array == /\ reply.outcome.kind = "text"
                        /\ parsed.exc = "none"
                        /\ parsed.value.kind = "list"
           IN IF array THEN reply.result = parsed.value.items
              ELSE reply.result = <<>>

\* C11 witness: the service returned a null content, whose parse raises an
\* exception that is not a JSONDecodeError.
C11_Witness ==
    /\ reply.calls = 1
    /\ reply.outcome.kind = "null"
    /\ reply.result = <<>>

(***************************************************************************)
(* The rule-based classifier on its own: classify_message is called on     *)
(* every announcement.                                                     *)
(***************************************************************************)
RuleClassify(message) ==
    /\ ~verdict.done
    /\ verdict' = [message |-> message, done |-> TRUE,
                   result |-> classify_message(message)]
    /\ UNCHANGED <<listenerVars, ingestVars, reply, removal, wsVars>>

\* The caller is done with the classification.
RuleForget ==
    /\ verdict.done
    /\ verdict' = NoVerdict
    /\ UNCHANGED <<listenerVars, ingestVars, reply, removal, wsVars>>

NextRules ==
    \/ \E message \in Announcements(MaxSegments) : RuleClassify(message)
    \/ RuleForget

SpecRules == Init /\ [][NextRules]_vars

\* The exchanges the classifier knows.
Exchanges == {exchange_phrases[e].exchange : e \in DOMAIN exchange_phrases}

\* A trigger phrase of the exchange stands in the message, letter case apart.
PhraseMatches(exchange, message) ==
    \E e \in DOMAIN exchange_phrases :
        /\ exchange_phrases[e].exchange = exchange
        /\ \E p \in DOMAIN exchange_phrases[e].phrases :
              IsSubstring(str_lower(exchange_phrases[e].phrases[p]),
                          str_lower(message))

\* The sequence holds no element twice.
NoDuplicates(s) == \A i, j \in DOMAIN s : s[i] = s[j] => i = j

\* C12: every exchange whose trigger phrase stands in the message and whose
\* patterns extract a token from it has its classification in what
\* classify_message returns.
C12_EveryExchangeClassified ==
    verdict.done =>
        \A x \in Exchanges :
            (/\ PhraseMatches(x, verdict.message)
             /\ extract_listing_info(x, verdict.message).some)
                => verdict.result.some /\ verdict.result.exchange = x

\* C13: an exchange whose trigger phrase stands in the message but whose
\* patterns capture no token gets no classification, and the classification
\* classify_message returns carries tokens, none of them twice.
C13_NoTokenNoClassification ==
    verdict.done =>
        /\ verdict.result.some =>
              /\ verdict.result.tokens # <<>>
              /\ NoDuplicates(verdict.result.tokens)
        /\ \A x \in Exchanges :
              (/\ PhraseMatches(x, verdict.message)
               /\ extract_tokens(x, verdict.message) = <<>>)
                  => /\ ~extract_listing_info(x, verdict.message).some
                     /\ ~(verdict.result.some /\ verdict.result.exchange = x)

\* C13 witness: the trigger phrase of one exchange stands in the message with
\* no token for it, and the classification returned is of another exchange
\* whose patterns captured a token more than once.
C13_Witness ==
    /\ verdict.done
    /\ \E x \in Exchanges :
          /\ PhraseMatches(x, verdict.message)
          /\ extract_tokens(x, verdict.message) = <<>>
    /\ verdict.result.some
    /\ Len(extract_tokens(verdict.result.exchange, verdict.message))
           > Len(verdict.result.tokens)

\* C14: for Binance and Bybit, a message that holds both "futures" and
\* "spot" has market type Futures and a message that holds none of the
\* exchange's market keywords has Unknown, in the market-type functions and
\* in the classification returned.
C14_MarketTypePriority ==
    verdict.done =>
        LET ml == str_lower(verdict.message)
            both == IsSubstring("futures", ml) /\ IsSubstring("spot", ml)
            noneBinance == \A k \in {"futures", "spot", "launchpool"} :
                               ~IsSubstring(k, ml)
            noneBybit == \A k \in {"perpetual contract", "futures", "spot"} :
                             ~IsSubstring(k, ml)
            r == verdict.result
        IN /\ both => /\ determine_market_type_binance(ml) = "Futures"
                      /\ determine_market_type_bybit(ml) = "Futures"
           /\ noneBinance => determine_market_type_binance(ml) = "Unknown"
           /\ noneBybit => determine_market_type_bybit(ml) = "Unknown"
           /\ (r.some /\ r.exchange \in {"Binance", "Bybit"} /\ both)
                 => r.market = "Futures"
           /\ (r.some /\ r.exchange = "Binance" /\ noneBinance)
                 => r.market = "Unknown"
           /\ (r.some /\ r.exchange = "Bybit" /\ noneBybit)
                 => r.market = "Unknown"

\* C14 witness: a Binance classification of a message that holds both
\* "futures" and "spot".
C14_Witness ==
    /\ verdict.done
    /\ verdict.result.some
    /\ verdict.result.exchange = "Binance"
    /\ IsSubstring("futures", str_lower(verdict.message))
    /\ IsSubstring("spot", str_lower(verdict.message))

\* C15: "Binance Will List Example Token (EXT)" is classified as exchange
\* Binance, tokens {EXT}, market Unknown.
C15_BinanceTwoWordName ==
    (verdict.done /\ verdict.message = "Binance Will List Example Token (EXT)")
        => /\ verdict.result.some
           /\ verdict.result.exchange = "Binance"
           /\ Range(verdict.result.tokens) = {"EXT"}
           /\ verdict.result.market = "Unknown"

\* C16: "Coinbase will add support for Example Token (EXT)" is classified as
\* exchange Coinbase, tokens {EXT}, market Spot.
C16_CoinbaseTwoWordName ==
    (/\ verdict.done
     /\ verdict.message = "Coinbase will add support for Example Token (EXT)")
        => /\ verdict.result.some
           /\ verdict.result.exchange = "Coinbase"
           /\ Range(verdict.result.tokens) = {"EXT"}
           /\ verdict.result.market = "Spot"


(***************************************************************************)
(* start() when the authentication fails.                                  *)
(***************************************************************************)
\* C17: when handle_authentication fails during start(), that step leaves
\* the listener stopped (is_running false), begins no reconciliation pass and
\* registers no handler, and start() ends by raising to its caller; after
\* that the listener is neither connecting nor authenticating, and stays
\* stopped, until start() is called again.
C17_AuthFailureStops ==
    /\ [](failure = "auth" => (~is_running /\ pc[0] = "idle"))
    /\ [][(pc[0] = "auth" /\ failure' = "auth") =>
            /\ ~is_running'
            /\ pc'[0] = "idle"
            /\ todo' = todo
            /\ registry' = registry
            /\ channel_handlers' = channel_handlers]_vars
    /\ [][(failure = "auth" /\ pc'[0] # "idle") =>
            (pc'[0] = "connect" /\ failure' = "none")]_vars

\* start() has raised on a failed authentication with channels configured
\* and the transport connected.
C17_Witness ==
    /\ failure = "auth"
    /\ connected
    /\ channels # <<>>


(***************************************************************************)
(* The bookkeeping of handlers, remove_channel_handler included.           *)
(***************************************************************************)
\* remove_channel_handler(name) is called: it has no await and runs to its
\* end in one step.  A call for a name without a handler changes nothing.
RemoveChannelHandler(name) ==
    /\ name \in DOMAIN channel_handlers
    /\ LET st == remove_channel_handler(name, State)
       IN /\ channel_handlers' = st.handlers
          /\ registry' = st.reg
    /\ removal' = [found |-> TRUE]
    /\ UNCHANGED <<client, is_running, connected, channels, pc, todo, stopPc,
                   failure, ingestVars, reply, verdict, wsVars>>

NextBookkeeping ==
    \/ Next
    \/ \E name \in Names : RemoveChannelHandler(name)

SpecBookkeeping == Init /\ [][NextBookkeeping]_vars

\* C18: in every reachable state, with passes of update_monitored_channels
\* and calls of remove_channel_handler interleaved in every way, the
\* handlers registered with the client are exactly the values of
\* channel_handlers, and no channel name has more than one registered
\* handler.
C18_HandlerBookkeeping ==
    /\ {x.id : x \in registry} = Range(channel_handlers)
    /\ \A n \in Names : Cardinality(HandlersOf(n, State)) <= 1
    /\ \A n \in DOMAIN channel_handlers : channel_handlers[n][1] = n

\* remove_channel_handler has removed a handler while two passes are
\* suspended at a name resolution and another handler is registered.
C18_Witness ==
    /\ removal.found
    /\ registry # {}
    /\ \E t, u \in Tasks : t # u /\ pc[t] = "pass" /\ pc[u] = "pass"


(***************************************************************************)
(* WebSocketServer: clients connecting and disconnecting around a          *)
(* broadcast.  register and unregister have no await of their own, so a    *)
(* call of either runs within the step of its caller.                      *)
(***************************************************************************)
\* A connection is accepted: handle_client registers the websocket and
\* waits for its first message.
Connect(w) ==
    /\ wsPc[w] = "none"
    /\ clients' = register(clients, w)
    /\ wsPc' = [wsPc EXCEPT ![w] = "open"]
    /\ UNCHANGED <<broadcastPc, iterator, disconnected_clients,
                   listenerVars, ingestVars, reply, verdict, removal>>

\* The connection of w closes: the async for of handle_client ends and its
\* finally clause unregisters the websocket.
Disconnect(w) ==
    /\ wsPc[w] = "open"
    /\ LET r == unregister(clients, w)
       IN /\ clients' = r.clients
          /\ wsPc' = [wsPc EXCEPT ![w] = IF r.raised THEN "KeyError"
                                         ELSE "returned"]
    /\ UNCHANGED <<broadcastPc, iterator, disconnected_clients,
                   listenerVars, ingestVars, reply, verdict, removal>>

\* The loop over disconnected_clients, dc being that set: every client is
\* unregistered, or unregister raises at one that is not in self.clients,
\* those the loop came to before it being removed.
RemoveDisconnected(dc) ==
    IF dc \subseteq clients
    THEN /\ clients' = clients \ dc
         /\ broadcastPc' = "returned"
    ELSE /\ \E before \in SUBSET (dc \cap clients) : clients' = clients \ before
         /\ broadcastPc' = "KeyError"

\* broadcast(message) is called, and runs up to its first send.
BroadcastCall ==
    /\ broadcastPc # "sending"
    /\ disconnected_clients' = {}
    /\ IF clients = {}
       THEN /\ broadcastPc' = "returned"
            /\ iterator' = NoIterator
       ELSE /\ broadcastPc' = "sending"
            /\ \E first \in clients : iterator' = NewIterator(clients, first)
    /\ UNCHANGED <<clients, wsPc, listenerVars, ingestVars, reply, verdict,
                   removal>>

\* client.send returns (ok) or raises, and broadcast runs on: to the next
\* send, to its end through the removal loop, or to the RuntimeError that
\* next() raises over a set that has changed size.
SendEnds(ok) ==
    /\ broadcastPc = "sending"
    /\ LET dc == IF ok THEN disconnected_clients
                 ELSE disconnected_clients \cup {iterator.current}
       IN /\ disconnected_clients' = dc
          /\ IF Cardinality(clients) # iterator.size
             THEN /\ broadcastPc' = "RuntimeError"
                  /\ UNCHANGED <<clients, iterator>>
             ELSE \/ /\ \E c \in NextClients(clients, iterator) :
                          iterator' = [iterator EXCEPT
                                          !.visited = @ \cup {c},
                                          !.current = c]
                     /\ UNCHANGED <<clients, broadcastPc>>
                  \/ /\ Exhausted(clients, iterator)
                     /\ RemoveDisconnected(dc)
                     /\ UNCHANGED iterator
    /\ UNCHANGED <<wsPc, listenerVars, ingestVars, reply, verdict, removal>>

NextWebSocket ==
    \/ \E w \in Sockets : Connect(w)
    \/ \E w \in Sockets : Disconnect(w)
    \/ BroadcastCall
    \/ \E ok \in BOOLEAN : SendEnds(ok)

SpecWebSocket == Init /\ [][NextWebSocket]_vars

\* C19: with clients connecting and disconnecting while broadcast is
\* suspended on a send, broadcast ends without raising and leaves in
\* self.clients no client whose send failed, and no call of unregister is
\* for a client that is not in the set.
C19_BroadcastSafe ==
    /\ broadcastPc \notin {"RuntimeError", "KeyError"}
    /\ broadcastPc = "returned" => disconnected_clients \cap clients = {}
    /\ \A w \in Sockets : wsPc[w] # "KeyError"

====
